---- MODULE Spec2Model ----
(***************************************************************************)
(* The widgetdc_contracts Python package: pydantic v2 models generated     *)
(* from the @widgetdc/contracts schemas.  Every class of the package       *)
(* derives from pydantic.BaseModel (or RootModel) with no model_config of  *)
(* its own, so a payload is validated by BaseModel.model_validate under    *)
(* pydantic's default configuration (extra = "ignore", strict = False)     *)
(* and written back by BaseModel.model_dump(mode = "json").                *)
(*                                                                         *)
(* A wire value is a JSON tree: null, bool, int, float, str, list, map.    *)
(* A float is held in tenths (1.5 is FltV(15)); a string is a sequence of   *)
(* symbols, a symbol being one character ("4", "-", ".") or one opaque     *)
(* word ("NOT_FOUND"), so that number parsing is computed digit by digit.  *)
(* A map is a sequence of <<key, value>> pairs with distinct keys: Python  *)
(* dicts keep insertion order.                                             *)
(***************************************************************************)
EXTENDS Integers, Sequences, FiniteSets, TLC

VARIABLES cls, raw, edits, phase, result, wire, again

vars == <<cls, raw, edits, phase, result, wire, again>>

(***************************************************************************)
(* Values                                                                  *)
(***************************************************************************)
NullV == [kind |-> "null"]

BoolV(b) == [kind |-> "bool", b |-> b]

IntV(n) == [kind |-> "int", n |-> n]

FltV(t) == [kind |-> "float", tenths |-> t]

StrV(s) == [kind |-> "str", s |-> s]

Word(w) == StrV(<<w>>)

List(xs) == [kind |-> "list", xs |-> xs]

Map(items) == [kind |-> "map", items |-> items]

\* Values that only exist after validation.
Datetime(local, off) == [kind |-> "datetime", local |-> local, off |-> off]

Uuid(u) == [kind |-> "uuid", u |-> u]

Model(c, fields) == [kind |-> "model", cls |-> c, fields |-> fields]

Root(c, v) == [kind |-> "root", cls |-> c, root |-> v]

\* dict lookups on a sequence of <<key, value>> pairs
Keys(items) == {items[i][1] : i \in 1..Len(items)}

HasKey(items, k) == k \in Keys(items)

Get(items, k) == items[CHOOSE i \in 1..Len(items) : items[i][1] = k][2]

\* d[k] = v: an existing key keeps its place, a new key goes last
SetItem(items, k, v) ==
    IF HasKey(items, k)
    THEN [i \in 1..Len(items) |-> IF items[i][1] = k THEN <<k, v>> ELSE items[i]]
    ELSE Append(items, <<k, v>>)

\* del d[k]
DelItem(items, k) == SelectSeq(items, LAMBDA p : p[1] # k)

(***************************************************************************)
(* Field types, as the annotations of the generated classes state them     *)
(***************************************************************************)
TStr == [t |-> "str", min_length |-> 0]

TStrMin(n) == [t |-> "str", min_length |-> n]

TInt == [t |-> "int", has_ge |-> FALSE, ge |-> 0, has_le |-> FALSE, le |-> 0]

TIntGe(lo) == [t |-> "int", has_ge |-> TRUE, ge |-> lo, has_le |-> FALSE, le |-> 0]

TIntRange(lo, hi) == [t |-> "int", has_ge |-> TRUE, ge |-> lo, has_le |-> TRUE, le |-> hi]

TFloat == [t |-> "float", has_ge |-> FALSE, ge |-> 0, has_le |-> FALSE, le |-> 0]

\* bounds of a float field are held in tenths, like the values
TFloatRange(lo, hi) == [t |-> "float", has_ge |-> TRUE, ge |-> lo, has_le |-> TRUE, le |-> hi]

TBool == [t |-> "bool"]

TLiteral(members) == [t |-> "literal", members |-> members]

TModel(c) == [t |-> "model", cls |-> c]

TAny == [t |-> "any"]

TList(elem) == [t |-> "list", elem |-> elem]

\* dict[constr(pattern=r'^(.*)$'), V]
TDict(val) == [t |-> "dict", val |-> val]

TDatetime == [t |-> "datetime"]

TUuid == [t |-> "uuid"]

\* T | None
Opt(T) == [t |-> "nullable", inner |-> T]

\* name: T = Field(...): required, no default
Req(name, T) == [name |-> name, type |-> T, required |-> TRUE, default |-> NullV]

\* name: T = default
Dflt(name, T, d) == [name |-> name, type |-> T, required |-> FALSE, default |-> d]

(***************************************************************************)
(* The contracts: one definition per generated class, fields in declared   *)
(* order                                                                   *)
(***************************************************************************)
\* ---- http_.py ----
ApiErrorCodes ==
    {"VALIDATION_ERROR", "AUTH_ERROR", "NOT_FOUND", "RATE_LIMIT",
     "INTERNAL_ERROR", "TIMEOUT", "SERVICE_UNAVAILABLE"}

ApiError ==
    << Req("code", TLiteral(ApiErrorCodes)),
       Req("message", TStr),
       Req("status_code", TIntRange(400, 599)),
       Dflt("details", Opt(TDict(TAny)), NullV),
       Dflt("correlation_id", Opt(TStr), NullV) >>

Error ==
    << Req("code", TLiteral(ApiErrorCodes)),
       Req("message", TStr),
       Req("status_code", TIntRange(400, 599)),
       Dflt("details", Opt(TDict(TAny)), NullV),
       Dflt("correlation_id", Opt(TStr), NullV) >>

Metadata ==
    << Dflt("request_id", Opt(TStr), NullV),
       Dflt("timestamp", Opt(TDatetime), NullV),
       Dflt("duration_ms", Opt(TIntGe(0)), NullV),
       Dflt("correlation_id", Opt(TStr), NullV) >>

ApiResponse ==
    << Req("success", TBool),
       Dflt("data", TAny, NullV),
       Dflt("error", Opt(TModel("Error")), NullV),
       Dflt("metadata", Opt(TModel("Metadata")), NullV) >>

PaginatedResponse ==
    << Req("items", TList(TAny)),
       Req("total", TIntGe(0)),
       Req("page", TIntGe(1)),
       Req("page_size", TIntGe(1)),
       Req("has_more", TBool) >>

ResponseMetadata ==
    << Dflt("request_id", Opt(TStr), NullV),
       Dflt("timestamp", Opt(TDatetime), NullV),
       Dflt("duration_ms", Opt(TIntGe(0)), NullV),
       Dflt("correlation_id", Opt(TStr), NullV) >>

\* ---- cognitive.py ----
ReasoningModes == {"quick", "deep", "strategic"}

SourceServices == {"frontend", "backend", "rlm-engine"}

IntelligenceEventTypes ==
    {"context_folded", "routing_decision", "recommendation_ready",
     "learning_update", "health_change", "quality_scored", "q_learning_updated",
     "meta_learning_applied", "agent_memory_persisted", "attention_fold_complete",
     "circuit_breaker_triggered", "sse_bridge_connected", "error"}

CognitiveConstraints ==
    << Dflt("max_tokens", Opt(TIntRange(100, 32000)), NullV),
       Dflt("timeout_ms", Opt(TIntGe(1000)), NullV),
       Dflt("fold_context", Opt(TBool), BoolV(TRUE)),
       Dflt("preferred_provider", Opt(TStr), NullV) >>

Constraints ==
    << Dflt("max_tokens", Opt(TIntRange(100, 32000)), NullV),
       Dflt("timeout_ms", Opt(TIntGe(1000)), NullV),
       Dflt("fold_context", Opt(TBool), BoolV(TRUE)),
       Dflt("preferred_provider", Opt(TStr), NullV) >>

CognitiveRequest ==
    << Req("task", TStrMin(1)),
       Dflt("context", Opt(TDict(TAny)), NullV),
       Dflt("reasoning_mode", Opt(TLiteral(ReasoningModes)), Word("quick")),
       Dflt("trace_id", Opt(TUuid), NullV),
       Dflt("source_service", Opt(TLiteral(SourceServices)), Word("backend")),
       Dflt("domain_hint", Opt(TStr), NullV),
       Dflt("constraints", Opt(TModel("Constraints")), NullV),
       Dflt("recursion_depth", Opt(TIntRange(0, 5)), IntV(0)) >>

Trace ==
    << Req("trace_id", TStr),
       Dflt("total_spans", Opt(TInt), NullV),
       Dflt("total_duration_ms", Opt(TFloat), NullV) >>

Quality ==
    << Req("overall_score", TFloatRange(0, 10)),
       Dflt("parsability", Opt(TFloat), NullV),
       Dflt("relevance", Opt(TFloat), NullV),
       Dflt("completeness", Opt(TFloat), NullV) >>

Routing ==
    << Req("provider", TStr),
       Req("model", TStr),
       Dflt("domain", Opt(TStr), NullV),
       Dflt("latency_ms", Opt(TFloat), NullV),
       Dflt("cost", Opt(TFloat), NullV) >>

CognitiveResponse ==
    << Req("recommendation", Opt(TStr)),
       Req("reasoning", TStr),
       Req("confidence", TFloatRange(0, 10)),
       Dflt("reasoning_chain", Opt(TList(TStr)), NullV),
       Dflt("trace", Opt(TModel("Trace")), NullV),
       Dflt("quality", Opt(TModel("Quality")), NullV),
       Dflt("routing", Opt(TModel("Routing")), NullV) >>

IntelligenceEvent ==
    << Req("type", TLiteral(IntelligenceEventTypes)),
       Req("payload", TDict(TAny)),
       Dflt("trace_id", Opt(TStr), NullV),
       Dflt("source", Opt(TLiteral({"rlm-engine", "backend", "frontend"})), Word("rlm-engine")),
       Req("timestamp", TDatetime) >>

QualityScore ==
    << Req("overall_score", TFloatRange(0, 10)),
       Dflt("parsability", Opt(TFloat), NullV),
       Dflt("relevance", Opt(TFloat), NullV),
       Dflt("completeness", Opt(TFloat), NullV) >>

RoutingInfo ==
    << Req("provider", TStr),
       Req("model", TStr),
       Dflt("domain", Opt(TStr), NullV),
       Dflt("latency_ms", Opt(TFloat), NullV),
       Dflt("cost", Opt(TFloat), NullV) >>

TraceInfo ==
    << Req("trace_id", TStr),
       Dflt("total_spans", Opt(TInt), NullV),
       Dflt("total_duration_ms", Opt(TFloat), NullV) >>

\* ---- health.py ----
ModuleStatuses == {"active", "degraded", "inactive", "error"}

ServiceStatuses == {"healthy", "degraded", "unhealthy", "starting"}

ComponentHealth ==
    << Req("status", TStr),
       Dflt("latency_ms", Opt(TFloat), NullV),
       Dflt("last_check", Opt(TDatetime), NullV) >>

DomainProfile ==
    << Req("name", TStr),
       Req("competencies", TList(TStr)),
       Dflt("frameworks", Opt(TList(TStr)), NullV),
       Dflt("kpis", Opt(TList(TStr)), NullV),
       Dflt("agent_count", Opt(TInt), NullV),
       Dflt("strength", Opt(TLiteral({"emerging", "moderate", "strong", "expert"})), NullV) >>

Resources ==
    << Dflt("memory_mb", Opt(TFloat), NullV),
       Dflt("cpu_percent", Opt(TFloat), NullV),
       Dflt("neo4j_connected", Opt(TBool), NullV),
       Dflt("redis_connected", Opt(TBool), NullV),
       Dflt("postgres_connected", Opt(TBool), NullV) >>

\* faulty variant: timestamp: AwareDatetime | None = None
HealthPulseTimestampOptional ==
    << Req("service", TLiteral({"frontend", "backend", "rlm-engine"})),
       Req("status", TLiteral({"healthy", "degraded", "unhealthy", "starting"})),
       Req("uptime_seconds", TFloat),
       Dflt("last_request_ms", Opt(TFloat), NullV),
       Dflt("active_sessions", Opt(TInt), NullV),
       Dflt("modules", Opt(TDict(TLiteral(ModuleStatuses))), NullV),
       Dflt("resources", Opt(TModel("Resources")), NullV),
       Dflt("last_error", Opt(TStr), NullV),
       Dflt("version", Opt(TStr), NullV),
       Dflt("timestamp", Opt(TDatetime), NullV) >>

HealthPulse ==
    << Req("service", TLiteral({"frontend", "backend", "rlm-engine"})),
       Req("status", TLiteral({"healthy", "degraded", "unhealthy", "starting"})),
       Req("uptime_seconds", TFloat),
       Dflt("last_request_ms", Opt(TFloat), NullV),
       Dflt("active_sessions", Opt(TInt), NullV),
       Dflt("modules", Opt(TDict(TLiteral(ModuleStatuses))), NullV),
       Dflt("resources", Opt(TModel("Resources")), NullV),
       Dflt("last_error", Opt(TStr), NullV),
       Dflt("version", Opt(TStr), NullV),
       Req("timestamp", TDatetime) >>

Components ==
    << Req("status", TStr),
       Dflt("latency_ms", Opt(TFloat), NullV),
       Dflt("last_check", Opt(TDatetime), NullV) >>

MetaLearning ==
    << Dflt("domains_tracked", Opt(TInt), NullV),
       Dflt("total_llm_calls", Opt(TInt), NullV),
       Dflt("avg_quality", Opt(TFloat), NullV) >>

HealthStatus ==
    << Req("service", TStr),
       Req("status", TLiteral({"healthy", "degraded", "unhealthy", "unknown"})),
       Dflt("uptime_seconds", Opt(TFloat), NullV),
       Dflt("version", Opt(TStr), NullV),
       Dflt("components", Opt(TDict(TModel("Components"))), NullV),
       Dflt("meta_learning", Opt(TModel("MetaLearning")), NullV) >>

MetaLearningStats ==
    << Dflt("domains_tracked", Opt(TInt), NullV),
       Dflt("total_llm_calls", Opt(TInt), NullV),
       Dflt("avg_quality", Opt(TFloat), NullV) >>

ServiceResources ==
    << Dflt("memory_mb", Opt(TFloat), NullV),
       Dflt("cpu_percent", Opt(TFloat), NullV),
       Dflt("neo4j_connected", Opt(TBool), NullV),
       Dflt("redis_connected", Opt(TBool), NullV),
       Dflt("postgres_connected", Opt(TBool), NullV) >>

\* ---- agent.py, consulting.py, graph.py: RootModel[Literal[...]] ----
AgentPersona ==
    {"RESEARCHER", "ENGINEER", "CUSTODIAN", "ARCHITECT", "SENTINEL",
     "ARCHIVIST", "HARVESTER", "ANALYST", "INTEGRATOR", "TESTER"}

AgentTier == {"ANALYST", "ASSOCIATE", "MANAGER", "PARTNER", "ARCHITECT"}

SignalType ==
    {"task_started", "task_completed", "task_failed", "escalation", "quality_gate",
     "tool_executed", "deliverable_generated", "insight", "warning"}

DomainId ==
    {"strategy_corp", "deals_ma", "financial_advisory", "operations_supply_chain",
     "technology_digital", "ai_analytics", "cybersecurity", "risk_compliance_controls",
     "tax_legal_adjacent", "esg_sustainability", "customer_marketing_sales",
     "people_organization", "pmo_change", "industry_solutions",
     "managed_services_operate"}

ProcessStatus == {"live", "shell", "new"}

NodeLabel ==
    {"ConsultingDomain", "L1ProcessFlow", "L2SubProcess", "Task", "Engagement",
     "Track", "Insight", "StrategicInsight", "Evidence", "Claim", "KnowledgePack",
     "KnowledgePattern", "Knowledge", "MCPTool", "Tool", "CodeImplementation",
     "Agent", "AgentProfile", "Session", "Decision", "TDCDocument", "SystemSnapshot",
     "LocalFile", "Entity", "ExpansionSignal", "CVE", "CyberIntelligence",
     "Directive", "Methodology", "KPI", "AIPattern", "Memory"}

RelationshipType ==
    {"BELONGS_TO_DOMAIN", "HAS_SUBPROCESS", "HAS_TASK", "PARENT_PROCESS",
     "USES_PROCESS", "HAS_TRACK", "ASSIGNED_TO", "IMPLEMENTS", "USES_METHODOLOGY",
     "MEASURES", "EVALUATES", "HAS_CRITERION", "HAS_CAPABILITY", "USES_TOOL",
     "USES_FRAMEWORK", "CODE_FOR", "CONTAINS_PATTERN", "SUPPORTED_BY", "CITES",
     "IN_DOMAIN", "RELATES_TO", "IS_A", "RUNS", "MADE_DECISION", "HAS_CONTENT",
     "SIMILAR_TO", "DUPLICATE_OF", "HAS_EXPANSION_SIGNAL", "DETECTED_AT"}

\* the classes that derive from BaseModel, and their fields
ObjectModels ==
    {"ApiError", "Error", "Metadata", "ApiResponse", "PaginatedResponse",
     "ResponseMetadata", "CognitiveConstraints", "Constraints", "CognitiveRequest",
     "Trace", "Quality", "Routing", "CognitiveResponse", "IntelligenceEvent",
     "QualityScore", "RoutingInfo", "TraceInfo", "ComponentHealth", "DomainProfile",
     "Resources", "HealthPulse", "Components", "MetaLearning", "HealthStatus",
     "MetaLearningStats", "ServiceResources"}

Fields(c) ==
    CASE c = "ApiError" -> ApiError
      [] c = "Error" -> Error
      [] c = "Metadata" -> Metadata
      [] c = "ApiResponse" -> ApiResponse
      [] c = "PaginatedResponse" -> PaginatedResponse
      [] c = "ResponseMetadata" -> ResponseMetadata
      [] c = "CognitiveConstraints" -> CognitiveConstraints
      [] c = "Constraints" -> Constraints
      [] c = "CognitiveRequest" -> CognitiveRequest
      [] c = "Trace" -> Trace
      [] c = "Quality" -> Quality
      [] c = "Routing" -> Routing
      [] c = "CognitiveResponse" -> CognitiveResponse
      [] c = "IntelligenceEvent" -> IntelligenceEvent
      [] c = "QualityScore" -> QualityScore
      [] c = "RoutingInfo" -> RoutingInfo
      [] c = "TraceInfo" -> TraceInfo
      [] c = "ComponentHealth" -> ComponentHealth
      [] c = "DomainProfile" -> DomainProfile
      [] c = "Resources" -> Resources
      [] c = "HealthPulse" -> HealthPulse
      [] c = "Components" -> Components
      [] c = "MetaLearning" -> MetaLearning
      [] c = "HealthStatus" -> HealthStatus
      [] c = "MetaLearningStats" -> MetaLearningStats
      [] c = "ServiceResources" -> ServiceResources

\* the classes that derive from RootModel[Literal[...]], and their literal sets
RootModels ==
    {"AgentPersona", "AgentTier", "SignalType", "DomainId", "ProcessStatus",
     "NodeLabel", "RelationshipType", "ApiErrorCode", "IntelligenceEventType",
     "ReasoningMode", "SourceService", "ModuleStatus", "ServiceStatus"}

RootLiterals(c) ==
    CASE c = "AgentPersona" -> AgentPersona
      [] c = "AgentTier" -> AgentTier
      [] c = "SignalType" -> SignalType
      [] c = "DomainId" -> DomainId
      [] c = "ProcessStatus" -> ProcessStatus
      [] c = "NodeLabel" -> NodeLabel
      [] c = "RelationshipType" -> RelationshipType
      [] c = "ApiErrorCode" -> ApiErrorCodes
      [] c = "IntelligenceEventType" -> IntelligenceEventTypes
      [] c = "ReasoningMode" -> ReasoningModes
      [] c = "SourceService" -> SourceServices
      [] c = "ModuleStatus" -> ModuleStatuses
      [] c = "ServiceStatus" -> ServiceStatuses

FieldNames(c) == {Fields(c)[i].name : i \in 1..Len(Fields(c))}

\* model_config: WidgeTDCBaseModel sets it, and no generated class derives from
\* WidgeTDCBaseModel; each derives from pydantic's BaseModel, whose defaults are
\* extra = "ignore" and strict = False
WidgeTDCBaseModel == [populate_by_name |-> TRUE, extra |-> "ignore", strict |-> FALSE]

BaseModel == [populate_by_name |-> FALSE, extra |-> "ignore", strict |-> FALSE]

ModelConfig(c) == BaseModel

(***************************************************************************)
(* Scalar conversions of pydantic's lax mode                               *)
(***************************************************************************)
Digits == <<"0", "1", "2", "3", "4", "5", "6", "7", "8", "9">>

IsDigit(sym) == \E i \in 1..10 : Digits[i] = sym

DigitValue(sym) == (CHOOSE i \in 1..10 : Digits[i] = sym) - 1

AllDigits(s) == \A i \in 1..Len(s) : IsDigit(s[i])

RECURSIVE DigitsValue(_)
DigitsValue(s) ==
    IF s = <<>> THEN 0
    ELSE 10 * DigitsValue(SubSeq(s, 1, Len(s) - 1)) + DigitValue(s[Len(s)])

Sign(s) == IF s # <<>> /\ s[1] = "-" THEN -1 ELSE 1

Unsigned(s) == IF s # <<>> /\ s[1] \in {"-", "+"} THEN Tail(s) ELSE s

DotAt(s) == IF \E i \in 1..Len(s) : s[i] = "."
            THEN CHOOSE i \in 1..Len(s) : s[i] = "." /\ \A j \in 1..(i - 1) : s[j] # "."
            ELSE 0

IntPart(s) == IF DotAt(s) = 0 THEN s ELSE SubSeq(s, 1, DotAt(s) - 1)

FracPart(s) == IF DotAt(s) = 0 THEN <<>> ELSE SubSeq(s, DotAt(s) + 1, Len(s))

AllZeros(s) == \A i \in 1..Len(s) : s[i] = "0"

\* str -> int: an optional sign, digits, and at most a fraction of zeros ("404.0")
IsIntString(s) ==
    LET u == Unsigned(s)
    IN  /\ IntPart(u) # <<>>
        /\ AllDigits(IntPart(u))
        /\ AllZeros(FracPart(u))

StrAsInt(s) == Sign(s) * DigitsValue(IntPart(Unsigned(s)))

\* str -> float, in tenths: the fraction's first digit counts, the rest must be zeros
IsFloatString(s) ==
    LET u == Unsigned(s)
    IN  /\ IntPart(u) # <<>>
        /\ AllDigits(IntPart(u))
        /\ \/ DotAt(u) = 0
           \/ /\ FracPart(u) # <<>>
              /\ IsDigit(FracPart(u)[1])
              /\ AllZeros(Tail(FracPart(u)))

StrAsFloat(s) ==
    LET u == Unsigned(s)
    IN  Sign(s) * (10 * DigitsValue(IntPart(u))
                   + (IF FracPart(u) = <<>> THEN 0 ELSE DigitValue(FracPart(u)[1])))

\* float -> int is allowed only without a fractional part
FloatIsIntegral(t) == t % 10 = 0

FloatAsInt(t) == t \div 10

IntAsFloat(n) == 10 * n

BoolTrueWords == {"1", "on", "t", "true", "y", "yes"}

BoolFalseWords == {"0", "off", "f", "false", "n", "no"}

\* ISO 8601 strings: a local date-time symbol, then an optional offset symbol
IsoLocals == {"2026-01-01T00:00:00", "2026-06-30T12:00:00"}

TzOffsets == <<"Z", "+00:00", "+02:00">>

TzMinutes(sym) == CASE sym = "Z" -> 0 [] sym = "+00:00" -> 0 [] sym = "+02:00" -> 120

\* pydantic writes a zero offset as Z
TzSymbol(off) == IF off = 0 THEN "Z" ELSE "+02:00"

IsTz(sym) == \E i \in 1..Len(TzOffsets) : TzOffsets[i] = sym

\* UUID strings: the canonical form, and forms uuid.UUID normalises to it
CanonicalUuid == "123e4567-e89b-12d3-a456-426614174000"

UuidForms ==
    {CanonicalUuid, "123E4567-E89B-12D3-A456-426614174000",
     "urn:uuid:123e4567-e89b-12d3-a456-426614174000"}

(***************************************************************************)
(* Validation: BaseModel.model_validate                                    *)
(***************************************************************************)
Ok(v) == [errs |-> <<>>, val |-> v]

Err(type, loc, input) ==
    [errs |-> << [type |-> type, loc |-> loc, input |-> input] >>, val |-> NullV]

\* faulty variant: gt and lt instead of ge and le
CheckBoundsExclusive(T, n, out, loc, input) ==
    IF T.has_ge /\ ~(n > T.ge) THEN Err("greater_than_equal", loc, input)
    ELSE IF T.has_le /\ ~(n < T.le) THEN Err("less_than_equal", loc, input)
    ELSE Ok(out)

\* ge is checked before le is reported; at most one of them fails
CheckBounds(T, n, out, loc, input) ==
    IF T.has_ge /\ ~(n >= T.ge) THEN Err("greater_than_equal", loc, input)
    ELSE IF T.has_le /\ ~(n <= T.le) THEN Err("less_than_equal", loc, input)
    ELSE Ok(out)

ValidateInt(T, v, loc, strict) ==
    CASE v.kind = "int" -> CheckBounds(T, v.n, IntV(v.n), loc, v)
      [] v.kind = "bool" ->
            IF strict THEN Err("int_type", loc, v)
            ELSE LET n == IF v.b THEN 1 ELSE 0 IN CheckBounds(T, n, IntV(n), loc, v)
      [] v.kind = "float" ->
            IF strict THEN Err("int_type", loc, v)
            ELSE IF FloatIsIntegral(v.tenths)
                 THEN CheckBounds(T, FloatAsInt(v.tenths), IntV(FloatAsInt(v.tenths)), loc, v)
                 ELSE Err("int_from_float", loc, v)
      [] v.kind = "str" ->
            IF strict THEN Err("int_type", loc, v)
            ELSE IF IsIntString(v.s)
                 THEN CheckBounds(T, StrAsInt(v.s), IntV(StrAsInt(v.s)), loc, v)
                 ELSE Err("int_parsing", loc, v)
      [] OTHER -> Err("int_type", loc, v)

ValidateFloat(T, v, loc, strict) ==
    CASE v.kind = "float" -> CheckBounds(T, v.tenths, FltV(v.tenths), loc, v)
      [] v.kind = "int" -> CheckBounds(T, IntAsFloat(v.n), FltV(IntAsFloat(v.n)), loc, v)
      [] v.kind = "bool" ->
            IF strict THEN Err("float_type", loc, v)
            ELSE LET t == IF v.b THEN 10 ELSE 0 IN CheckBounds(T, t, FltV(t), loc, v)
      [] v.kind = "str" ->
            IF strict THEN Err("float_type", loc, v)
            ELSE IF IsFloatString(v.s)
                 THEN CheckBounds(T, StrAsFloat(v.s), FltV(StrAsFloat(v.s)), loc, v)
                 ELSE Err("float_parsing", loc, v)
      [] OTHER -> Err("float_type", loc, v)

ValidateStr(T, v, loc) ==
    IF v.kind # "str" THEN Err("string_type", loc, v)
    ELSE IF Len(v.s) < T.min_length THEN Err("string_too_short", loc, v)
    ELSE Ok(v)

ValidateBool(v, loc, strict) ==
    CASE v.kind = "bool" -> Ok(v)
      [] v.kind = "int" /\ ~strict ->
            IF v.n \in {0, 1} THEN Ok(BoolV(v.n = 1)) ELSE Err("bool_parsing", loc, v)
      [] v.kind = "float" /\ ~strict ->
            IF v.tenths \in {0, 10} THEN Ok(BoolV(v.tenths = 10))
            ELSE Err("bool_parsing", loc, v)
      [] v.kind = "str" /\ ~strict ->
            IF Len(v.s) = 1 /\ v.s[1] \in BoolTrueWords THEN Ok(BoolV(TRUE))
            ELSE IF Len(v.s) = 1 /\ v.s[1] \in BoolFalseWords THEN Ok(BoolV(FALSE))
            ELSE Err("bool_parsing", loc, v)
      [] OTHER -> Err("bool_type", loc, v)

\* faulty variant: the field is annotated str instead of Literal[...]
ValidateLiteralAnyString(T, v, loc) ==
    IF v.kind = "str" THEN Ok(v) ELSE Err("literal_error", loc, v)

\* Literal[...] of strings: the value must be one of the members, as it stands
ValidateLiteral(T, v, loc) ==
    IF v.kind = "str" /\ Len(v.s) = 1 /\ v.s[1] \in T.members THEN Ok(v)
    ELSE Err("literal_error", loc, v)

\* AwareDatetime (numeric timestamps are not among the inputs drawn)
ValidateDatetime(v, loc) ==
    IF v.kind # "str" THEN Err("datetime_type", loc, v)
    ELSE IF ~(Len(v.s) \in {1, 2} /\ v.s[1] \in IsoLocals /\ (Len(v.s) = 2 => IsTz(v.s[2])))
    THEN Err("datetime_from_date_parsing", loc, v)
    ELSE IF Len(v.s) = 1 THEN Err("timezone_aware", loc, v)
    ELSE Ok(Datetime(v.s[1], TzMinutes(v.s[2])))

ValidateUuid(v, loc) ==
    IF v.kind # "str" THEN Err("uuid_type", loc, v)
    ELSE IF Len(v.s) = 1 /\ v.s[1] \in UuidForms THEN Ok(Uuid(CanonicalUuid))
    ELSE Err("uuid_parsing", loc, v)

\* faulty variant: validation stops at the first field that fails
ShortCircuit(first, rest) == IF first # <<>> THEN first ELSE rest

\* errors of one field, then the errors of the fields after it: pydantic collects
\* every line error before it raises ValidationError
Accumulate(first, rest) == first \o rest

\* faulty variant: extra = "forbid"
ExtraForbid(c) == "forbid"

\* what is done with keys that are no field of the class
ExtraPolicy(c) == ModelConfig(c).extra

Strict(c) == ModelConfig(c).strict

ExtraItems(c, items) == SelectSeq(items, LAMBDA p : p[1] \notin FieldNames(c))

RECURSIVE ValidateType(_, _, _, _)
RECURSIVE ValidateFields(_, _, _, _)
RECURSIVE ValidateElems(_, _, _, _, _)
RECURSIVE ValidateItems(_, _, _, _, _)

\* a nested or top-level BaseModel class against a value
ValidateModel(c, v, loc) ==
    IF v.kind # "map" THEN Err("model_type", loc, v)
    ELSE LET r  == ValidateFields(c, v.items, loc, 1)
             ex == ExtraItems(c, v.items)
             exErrs == IF ExtraPolicy(c) = "forbid"
                       THEN [i \in 1..Len(ex) |->
                               [type |-> "extra_forbidden", loc |-> Append(loc, ex[i][1]),
                                input |-> ex[i][2]]]
                       ELSE <<>>
             kept == IF ExtraPolicy(c) = "allow" THEN ex ELSE <<>>
             errs == Accumulate(r.errs, exErrs)
         IN  IF errs = <<>> THEN Ok(Model(c, r.fields \o kept))
             ELSE [errs |-> errs, val |-> NullV]

\* faulty variant: an absent required field is treated like an optional one
ValidateFieldOptional(c, f, items, loc) ==
    IF HasKey(items, f.name)
    THEN ValidateType(f.type, Get(items, f.name), Append(loc, f.name), Strict(c))
    ELSE Ok(f.default)

\* faulty variant: the declared default is ignored, an absent optional field is null
ValidateFieldNoDefault(c, f, items, loc) ==
    IF HasKey(items, f.name)
    THEN ValidateType(f.type, Get(items, f.name), Append(loc, f.name), Strict(c))
    ELSE IF f.required THEN Err("missing", Append(loc, f.name), Map(items))
    ELSE Ok(NullV)

\* faulty variant: a key present with null is treated like an absent key
ValidateFieldNullIsAbsent(c, f, items, loc) ==
    IF HasKey(items, f.name) /\ (f.required \/ Get(items, f.name) # NullV)
    THEN ValidateType(f.type, Get(items, f.name), Append(loc, f.name), Strict(c))
    ELSE IF f.required THEN Err("missing", Append(loc, f.name), Map(items))
    ELSE Ok(f.default)

\* one declared field: looked up by its exact name
ValidateField(c, f, items, loc) ==
    IF HasKey(items, f.name)
    THEN ValidateType(f.type, Get(items, f.name), Append(loc, f.name), Strict(c))
    ELSE IF f.required THEN Err("missing", Append(loc, f.name), Map(items))
    ELSE Ok(f.default)

\* the fields from the i-th on, in declared order
ValidateFields(c, items, loc, i) ==
    IF i > Len(Fields(c)) THEN [errs |-> <<>>, fields |-> <<>>]
    ELSE LET f == Fields(c)[i]
             r == ValidateField(c, f, items, loc)
             rest == ValidateFields(c, items, loc, i + 1)
         IN  [errs |-> Accumulate(r.errs, rest.errs),
              fields |-> << <<f.name, r.val>> >> \o rest.fields]

\* list[T]: the elements from the i-th on, each under its index
ValidateElems(T, xs, loc, strict, i) ==
    IF i > Len(xs) THEN [errs |-> <<>>, xs |-> <<>>]
    ELSE LET r == ValidateType(T, xs[i], Append(loc, ToString(i - 1)), strict)
             rest == ValidateElems(T, xs, loc, strict, i + 1)
         IN  [errs |-> Accumulate(r.errs, rest.errs), xs |-> <<r.val>> \o rest.xs]

\* dict[str, T]: the values from the i-th on, each under its key
ValidateItems(T, items, loc, strict, i) ==
    IF i > Len(items) THEN [errs |-> <<>>, items |-> <<>>]
    ELSE LET r == ValidateType(T, items[i][2], Append(loc, items[i][1]), strict)
             rest == ValidateItems(T, items, loc, strict, i + 1)
         IN  [errs |-> Accumulate(r.errs, rest.errs),
              items |-> << <<items[i][1], r.val>> >> \o rest.items]

ValidateType(T, v, loc, strict) ==
    CASE T.t = "nullable" -> IF v = NullV THEN Ok(NullV) ELSE ValidateType(T.inner, v, loc, strict)
      [] T.t = "any" -> Ok(v)
      [] T.t = "str" -> ValidateStr(T, v, loc)
      [] T.t = "int" -> ValidateInt(T, v, loc, strict)
      [] T.t = "float" -> ValidateFloat(T, v, loc, strict)
      [] T.t = "bool" -> ValidateBool(v, loc, strict)
      [] T.t = "literal" -> ValidateLiteral(T, v, loc)
      [] T.t = "datetime" -> ValidateDatetime(v, loc)
      [] T.t = "uuid" -> ValidateUuid(v, loc)
      [] T.t = "model" -> ValidateModel(T.cls, v, loc)
      [] T.t = "list" ->
            IF v.kind # "list" THEN Err("list_type", loc, v)
            ELSE LET r == ValidateElems(T.elem, v.xs, loc, strict, 1)
                 IN  IF r.errs = <<>> THEN Ok(List(r.xs)) ELSE [errs |-> r.errs, val |-> NullV]
      [] T.t = "dict" ->
            IF v.kind # "map" THEN Err("dict_type", loc, v)
            ELSE LET r == ValidateItems(T.val, v.items, loc, strict, 1)
                 IN  IF r.errs = <<>> THEN Ok(Map(r.items)) ELSE [errs |-> r.errs, val |-> NullV]

\* RootModel[Literal[...]]: the value itself is the root
ValidateRoot(c, v) ==
    LET r == ValidateLiteral(TLiteral(RootLiterals(c)), v, <<>>)
    IN  IF r.errs = <<>> THEN Ok(Root(c, r.val)) ELSE r

\* C.model_validate(x): the validated instance, or every error found
Validate(c, x) ==
    IF c \in RootModels THEN ValidateRoot(c, x) ELSE ValidateModel(c, x, <<>>)

(***************************************************************************)
(* Serialization: BaseModel.model_dump(mode = "json")                      *)
(***************************************************************************)
\* faulty variant: the offset is lost on the way out
DumpDatetimeNaive(v) == StrV(<<v.local>>)

\* an aware datetime is written with its offset
DumpDatetime(v) == StrV(<<v.local, TzSymbol(v.off)>>)

RECURSIVE Dump(_)
Dump(v) ==
    CASE v.kind = "model" ->
            Map([i \in 1..Len(v.fields) |-> <<v.fields[i][1], Dump(v.fields[i][2])>>])
      [] v.kind = "root" -> Dump(v.root)
      [] v.kind = "datetime" -> DumpDatetime(v)
      [] v.kind = "uuid" -> Word(v.u)
      [] v.kind = "list" -> List([i \in 1..Len(v.xs) |-> Dump(v.xs[i])])
      [] v.kind = "map" ->
            Map([i \in 1..Len(v.items) |-> <<v.items[i][1], Dump(v.items[i][2])>>])
      [] OTHER -> v

\* faulty variant: model_dump(exclude_none = True)
RECURSIVE DumpExcludeNone(_)
DumpExcludeNone(v) ==
    CASE v.kind = "model" ->
            LET kept == SelectSeq(v.fields, LAMBDA p : p[2] # NullV)
            IN  Map([i \in 1..Len(kept) |-> <<kept[i][1], DumpExcludeNone(kept[i][2])>>])
      [] v.kind = "root" -> DumpExcludeNone(v.root)
      [] v.kind = "datetime" -> DumpDatetime(v)
      [] v.kind = "uuid" -> Word(v.u)
      [] OTHER -> v

SerializeExcludeNone(v) == DumpExcludeNone(v)

Serialize(v) == Dump(v)

(***************************************************************************)
(* Inputs: the payloads a caller hands to model_validate                   *)
(***************************************************************************)
\* how many keys a caller sets or deletes in a sample payload before validating
MaxEdits == 1

\* the classes each module exports in __all__
Contracts ==
    {"ApiError", "ApiResponse", "PaginatedResponse", "ResponseMetadata",
     "CognitiveConstraints", "CognitiveRequest", "CognitiveResponse",
     "IntelligenceEvent", "QualityScore", "RoutingInfo", "TraceInfo",
     "ComponentHealth", "DomainProfile", "HealthPulse", "HealthStatus",
     "MetaLearningStats", "ServiceResources"}
    \cup RootModels

AwareStamp == StrV(<<"2026-01-01T00:00:00", "+00:00">>)

NaiveStamp == StrV(<<"2026-01-01T00:00:00">>)

\* rejected by every field type but list and Any
WrongKind == BoolV(TRUE)

RECURSIVE SampleValue(_)
RECURSIVE SampleItems(_, _)

\* a payload of class c with every field from the i-th on present and valid
SampleItems(c, i) ==
    IF i > Len(Fields(c)) THEN <<>>
    ELSE << <<Fields(c)[i].name, SampleValue(Fields(c)[i].type)>> >> \o SampleItems(c, i + 1)

SampleValue(T) ==
    CASE T.t = "nullable" -> SampleValue(T.inner)
      [] T.t = "any" -> IntV(1)
      [] T.t = "str" -> Word("x")
      [] T.t = "int" -> IF T.has_ge THEN IntV(T.ge) ELSE IntV(7)
      [] T.t = "float" -> IF T.has_ge THEN FltV(T.ge) ELSE FltV(1205)
      [] T.t = "bool" -> BoolV(FALSE)
      [] T.t = "literal" -> Word(CHOOSE m \in T.members : TRUE)
      [] T.t = "datetime" -> AwareStamp
      [] T.t = "uuid" -> Word("123E4567-E89B-12D3-A456-426614174000")
      [] T.t = "model" -> Map(SampleItems(T.cls, 1))
      [] T.t = "list" -> List(<<SampleValue(T.elem)>>)
      [] T.t = "dict" -> Map(<< <<"k", SampleValue(T.val)>> >>)

Reverse(s) == [i \in 1..Len(s) |-> s[Len(s) + 1 - i]]

\* the payloads of the three scenarios
Scenario1 == Map(<< <<"status", Word("healthy")>>, <<"uptime_seconds", FltV(1205)>> >>)

Scenario2 == Map(<< <<"overall_score", FltV(15)>> >>)

Scenario3 ==
    Map(<< <<"code", Word("NOT_FOUND")>>, <<"message", Word("x")>>,
           <<"status_code", IntV(404)>> >>)

Samples(c) ==
    IF c \in RootModels THEN {Word(CHOOSE m \in RootLiterals(c) : TRUE)}
    ELSE {Map(<<>>), Map(SampleItems(c, 1)), Map(Reverse(SampleItems(c, 1)))}
         \cup (IF c \in {"HealthPulse", "HealthStatus"} THEN {Scenario1} ELSE {})
         \cup (IF c = "QualityScore" THEN {Scenario2} ELSE {})
         \cup (IF c = "ApiError" THEN {Scenario3, Map(Reverse(Scenario3.items))} ELSE {})

\* strings that are no member of any literal set, some a member in another case
ForeignWords == {"not_found", "HEALTHY", "Quick", "researcher", "x"}

NumericStrings == {<<"4", "0", "4">>, <<"3">>, <<"4", "0", "4", ".", "0">>, <<"1", ".", "5">>}

\* the values a caller may put under a key of type T
RECURSIVE Candidates(_)
Candidates(T) ==
    CASE T.t = "nullable" -> Candidates(T.inner)
      [] T.t = "any" -> {NullV, IntV(1), Word("x"), Map(<<>>)}
      [] T.t = "str" -> {Word("x"), StrV(<<>>), StrV(<<"4", "0", "4">>), IntV(7), NullV}
      [] T.t = "int" ->
            (IF T.has_ge THEN {IntV(T.ge - 1), IntV(T.ge)} ELSE {IntV(-1)})
            \cup (IF T.has_le THEN {IntV(T.le), IntV(T.le + 1)} ELSE {IntV(404)})
            \cup {StrV(s) : s \in NumericStrings}
            \cup {Word("abc"), FltV(4040), FltV(4045), FltV(30), BoolV(TRUE), NullV}
      [] T.t = "float" ->
            (IF T.has_ge THEN {FltV(T.ge - 1), FltV(T.ge)} ELSE {FltV(-5)})
            \cup (IF T.has_le THEN {FltV(T.le), FltV(T.le + 1)} ELSE {FltV(1205)})
            \cup {FltV(15), FltV(5), IntV(1), IntV(2), StrV(<<"1", ".", "5">>), Word("abc"), NullV}
      [] T.t = "bool" -> {BoolV(TRUE), BoolV(FALSE), IntV(1), IntV(2), Word("yes"), Word("x"), NullV}
      [] T.t = "literal" ->
            {Word(m) : m \in T.members} \cup {Word(w) : w \in ForeignWords}
            \cup {StrV(<<>>), IntV(1), NullV}
      [] T.t = "datetime" ->
            {AwareStamp, NaiveStamp, StrV(<<"2026-06-30T12:00:00", "+02:00">>),
             StrV(<<"2026-01-01T00:00:00", "Z">>), Word("x"), NullV}
      [] T.t = "uuid" -> {Word(u) : u \in UuidForms} \cup {Word("x"), IntV(1), NullV}
      [] T.t = "model" ->
            {SampleValue(T), Map(<<>>), Word("x"), NullV,
             Map([i \in 1..Len(Fields(T.cls)) |-> <<Fields(T.cls)[i].name, WrongKind>>])}
      [] T.t = "list" ->
            {List(<<>>), SampleValue(T), List(<<SampleValue(T.elem), WrongKind, WrongKind>>),
             Word("x"), NullV}
      [] T.t = "dict" ->
            {Map(<<>>), SampleValue(T), Map(<< <<"k", WrongKind>>, <<"j", WrongKind>> >>),
             Word("x"), NullV}

\* keys that are no field of any class: an unknown name, and a field name in
\* another spelling
ExtraKeys == {"unknown_key", "statusCode", "Service"}

ExtraValues == {IntV(1), NullV}

FieldType(c, k) == Fields(c)[CHOOSE i \in 1..Len(Fields(c)) : Fields(c)[i].name = k].type

(***************************************************************************)
(* The state machine: a caller builds a payload, validates it, dumps the   *)
(* validated instance and validates the dump again                         *)
(***************************************************************************)
NoResult == [errs |-> <<>>, val |-> NullV]

TypeOK ==
    /\ cls \in Contracts
    /\ edits \in 0..MaxEdits
    /\ phase \in {"input", "validated", "rejected", "serialized", "revalidated"}

Init ==
    /\ cls \in Contracts
    /\ raw \in Samples(cls)
    /\ edits = 0
    /\ phase = "input"
    /\ result = NoResult
    /\ wire = NullV
    /\ again = NoResult

\* payload[k] = v for a declared field k
SetField ==
    /\ phase = "input" /\ edits < MaxEdits /\ cls \notin RootModels
    /\ \E k \in FieldNames(cls) : \E v \in Candidates(FieldType(cls, k)) :
          raw' = Map(SetItem(raw.items, k, v))
    /\ edits' = edits + 1
    /\ UNCHANGED <<cls, phase, result, wire, again>>

\* payload[k] = v for a key that is no field
SetExtra ==
    /\ phase = "input" /\ edits < MaxEdits /\ cls \notin RootModels
    /\ \E k \in ExtraKeys : \E v \in ExtraValues :
          raw' = Map(SetItem(raw.items, k, v))
    /\ edits' = edits + 1
    /\ UNCHANGED <<cls, phase, result, wire, again>>

\* del payload[k]
DelKey ==
    /\ phase = "input" /\ edits < MaxEdits /\ cls \notin RootModels
    /\ \E k \in Keys(raw.items) : raw' = Map(DelItem(raw.items, k))
    /\ edits' = edits + 1
    /\ UNCHANGED <<cls, phase, result, wire, again>>

\* another value for a RootModel class
SetRoot ==
    /\ phase = "input" /\ edits < MaxEdits /\ cls \in RootModels
    /\ raw' \in Candidates(TLiteral(RootLiterals(cls)))
    /\ edits' = edits + 1
    /\ UNCHANGED <<cls, phase, result, wire, again>>

\* cls.model_validate(raw)
DoValidate ==
    /\ phase = "input"
    /\ result' = Validate(cls, raw)
    /\ phase' = IF result'.errs = <<>> THEN "validated" ELSE "rejected"
    /\ UNCHANGED <<cls, raw, edits, wire, again>>

\* instance.model_dump(mode = "json")
DoSerialize ==
    /\ phase = "validated"
    /\ wire' = Serialize(result.val)
    /\ phase' = "serialized"
    /\ UNCHANGED <<cls, raw, edits, result, again>>

\* cls.model_validate(dump)
DoRevalidate ==
    /\ phase = "serialized"
    /\ again' = Validate(cls, wire)
    /\ phase' = "revalidated"
    /\ UNCHANGED <<cls, raw, edits, result, wire>>

Next == SetField \/ SetExtra \/ DelKey \/ SetRoot \/ DoValidate \/ DoSerialize \/ DoRevalidate

Spec == Init /\ [][Next]_vars

(***************************************************************************)
(* Vocabulary of the properties                                            *)
(***************************************************************************)
IsObject == cls \notin RootModels

\* model_validate has returned or raised
Checked == phase # "input"

Accepted == phase \in {"validated", "serialized", "revalidated"}

\* the error kinds of the specification, by pydantic error type
ErrorKind(type) ==
    CASE type = "missing" -> "MissingFieldError"
      [] type \in {"literal_error", "greater_than_equal", "less_than_equal",
                   "string_too_short", "timezone_aware"} -> "ConstraintViolationError"
      [] type \in {"int_type", "int_parsing", "int_from_float", "float_type",
                   "float_parsing", "string_type", "bool_type", "bool_parsing",
                   "datetime_type", "datetime_from_date_parsing", "uuid_type",
                   "uuid_parsing", "model_type", "list_type", "dict_type"}
            -> "TypeMismatchError"
      [] OTHER -> "Other"

\* the errors reported at exactly this path, and under this top-level field
ErrorsAt(errs, loc) == {i \in 1..Len(errs) : errs[i].loc = loc}

ErrorsUnder(errs, name) ==
    {i \in 1..Len(errs) : Len(errs[i].loc) >= 1 /\ errs[i].loc[1] = name}

Base(T) == IF T.t = "nullable" THEN T.inner ELSE T

FieldIdx == 1..Len(Fields(cls))

FieldVal(v, name) == Get(v.fields, name)

\* the payload without the keys that are no field of the class
Stripped(c, x) == Map(SelectSeq(x.items, LAMBDA p : p[1] \in FieldNames(c)))

UnknownKeys(c, x) == Keys(x.items) \ FieldNames(c)

(***************************************************************************)
(* C1: when the payload without its unknown keys validates, the payload    *)
(* with them validates too, and the validated instance has the declared    *)
(* fields only: unknown keys are dropped and never a cause of rejection.   *)
(* Every class derives from BaseModel directly.                            *)
(***************************************************************************)
C1_UnknownFieldsDropped ==
    (Checked /\ IsObject) =>
        /\ Validate(cls, Stripped(cls, raw)).errs = <<>> =>
              /\ result.errs = <<>>
              /\ Keys(result.val.fields) \cap UnknownKeys(cls, raw) = {}
              /\ result.val = Validate(cls, Stripped(cls, raw)).val
        /\ \A i \in 1..Len(result.errs) : result.errs[i].type # "extra_forbidden"

C1_Witness ==
    /\ Accepted /\ IsObject
    /\ UnknownKeys(cls, raw) # {}
    /\ Keys(result.val.fields) = FieldNames(cls)

(***************************************************************************)
(* C2: a required field without default whose key is omitted makes the     *)
(* payload rejected, with a "missing" error (MissingFieldError) whose path *)
(* is the field; CognitiveResponse.recommendation, required and nullable,  *)
(* is missing when omitted and accepted when null.                         *)
(***************************************************************************)
C2_MissingRequiredRejected ==
    (Checked /\ IsObject) =>
        /\ \A i \in FieldIdx :
              LET f == Fields(cls)[i]
              IN  (f.required /\ ~HasKey(raw.items, f.name)) =>
                     /\ phase = "rejected"
                     /\ \E e \in ErrorsAt(result.errs, <<f.name>>) :
                           ErrorKind(result.errs[e].type) = "MissingFieldError"
        /\ (cls = "CognitiveResponse" /\ HasKey(raw.items, "recommendation")
              /\ Get(raw.items, "recommendation") = NullV) =>
                 ErrorsUnder(result.errs, "recommendation") = {}

C2_Witness ==
    /\ cls = "CognitiveResponse" /\ phase = "rejected"
    /\ ~HasKey(raw.items, "recommendation")
    /\ HasKey(raw.items, "reasoning")
    /\ \E e \in ErrorsAt(result.errs, <<"recommendation">>) : result.errs[e].type = "missing"

(***************************************************************************)
(* C3 (as claimed): a string under an integer field, "404" included, is    *)
(* rejected with a TypeMismatchError on that field and never converted.    *)
(***************************************************************************)
C3_StringNeverCoercedToInt ==
    (Checked /\ IsObject) =>
        \A i \in FieldIdx :
            LET f == Fields(cls)[i]
            IN  (Base(f.type).t = "int" /\ HasKey(raw.items, f.name)
                   /\ Get(raw.items, f.name).kind = "str") =>
                    /\ phase = "rejected"
                    /\ \E e \in ErrorsAt(result.errs, <<f.name>>) :
                          ErrorKind(result.errs[e].type) = "TypeMismatchError"

(***************************************************************************)
(* C4: a string under a Literal[...] field, or as the root of a            *)
(* RootModel[Literal[...]], is accepted unchanged when it is a member of   *)
(* the set and otherwise rejected with a literal_error                     *)
(* (ConstraintViolationError) on it: no folding of case, no mapping.       *)
(***************************************************************************)
IsMember(v, members) == \E m \in members : v = Word(m)

C4_FieldClosed(f) ==
    LET v == Get(raw.items, f.name)
    IN  IF IsMember(v, Base(f.type).members)
        THEN /\ ErrorsUnder(result.errs, f.name) = {}
             /\ Accepted => FieldVal(result.val, f.name) = v
        ELSE /\ phase = "rejected"
             /\ \E e \in ErrorsAt(result.errs, <<f.name>>) :
                   /\ ErrorKind(result.errs[e].type) = "ConstraintViolationError"
                   /\ result.errs[e].input = v

C4_EnumClosure ==
    Checked =>
        IF IsObject
        THEN \A i \in FieldIdx :
                LET f == Fields(cls)[i]
                IN  (Base(f.type).t = "literal" /\ HasKey(raw.items, f.name)
                       /\ Get(raw.items, f.name).kind = "str") => C4_FieldClosed(f)
        ELSE raw.kind = "str" =>
                IF IsMember(raw, RootLiterals(cls))
                THEN Accepted /\ result.val = Root(cls, raw)
                ELSE /\ phase = "rejected"
                     /\ Len(result.errs) = 1
                     /\ ErrorKind(result.errs[1].type) = "ConstraintViolationError"
                     /\ result.errs[1].input = raw

C4_Witness ==
    /\ cls = "ApiError" /\ phase = "rejected"
    /\ HasKey(raw.items, "code") /\ Get(raw.items, "code") = Word("not_found")
    /\ \E e \in ErrorsAt(result.errs, <<"code">>) : result.errs[e].type = "literal_error"

(***************************************************************************)
(* C5: model_validate yields either the whole instance (every declared     *)
(* field, defaults filled in, nothing else) or no instance and the errors  *)
(* of every failing field: a field has an error under its name exactly     *)
(* when it fails on its own, also after an earlier field has failed, and a *)
(* nested object's failing fields are reported under the parent's name.    *)
(***************************************************************************)
FieldFails(c, f, items) == ValidateField(c, f, items, <<>>).errs # <<>>

IsScalar(T) == Base(T).t \in {"str", "int", "float", "bool", "literal", "datetime", "uuid"}

NestedReported(f) ==
    LET v == Get(raw.items, f.name)
        n == Base(f.type).cls
    IN  \A j \in 1..Len(Fields(n)) :
            FieldFails(n, Fields(n)[j], v.items)
            <=> \E e \in 1..Len(result.errs) :
                   /\ Len(result.errs[e].loc) >= 2
                   /\ result.errs[e].loc[1] = f.name
                   /\ result.errs[e].loc[2] = Fields(n)[j].name

FailingFields == {i \in FieldIdx : FieldFails(cls, Fields(cls)[i], raw.items)}

C5_Accumulates ==
    (Checked /\ IsObject) =>
        /\ (FailingFields = {}) <=> (phase # "rejected")
        /\ phase # "rejected" =>
              /\ result.errs = <<>>
              /\ result.val.kind = "model"
              /\ [i \in FieldIdx |-> result.val.fields[i][1]]
                    = [i \in FieldIdx |-> Fields(cls)[i].name]
        /\ phase = "rejected" => result.val = NullV
        /\ \A e \in 1..Len(result.errs) :
              /\ Len(result.errs[e].loc) >= 1
              /\ result.errs[e].loc[1] \in FieldNames(cls)
        /\ \A i \in FieldIdx :
              LET f == Fields(cls)[i]
              IN  /\ (i \in FailingFields) <=> (ErrorsUnder(result.errs, f.name) # {})
                  /\ (i \in FailingFields /\ IsScalar(f.type)) =>
                        Cardinality(ErrorsUnder(result.errs, f.name)) = 1
                  /\ (Base(f.type).t = "model" /\ HasKey(raw.items, f.name)
                        /\ Get(raw.items, f.name).kind = "map") => NestedReported(f)

C5_Witness ==
    /\ cls = "ApiResponse" /\ phase = "rejected"
    /\ Cardinality(FailingFields) >= 2
    /\ ErrorsUnder(result.errs, "success") # {}
    /\ Cardinality(ErrorsUnder(result.errs, "error")) >= 2

(***************************************************************************)
(* C6: validating the dump of a validated instance succeeds and yields     *)
(* the same instance, and dumping that again yields the same dump.         *)
(***************************************************************************)
C6_RoundTrip ==
    phase = "revalidated" =>
        /\ again.errs = <<>>
        /\ again.val = result.val
        /\ Serialize(again.val) = wire

C6_Witness ==
    /\ cls = "CognitiveRequest" /\ phase = "revalidated"
    /\ HasKey(raw.items, "trace_id")
    /\ FieldVal(result.val, "trace_id") = Uuid(CanonicalUuid)
    /\ wire # raw
    /\ again.val = result.val

(***************************************************************************)
(* C7: a number under a field with ge and/or le is accepted exactly when   *)
(* ge <= v <= le, the bounds themselves included; outside, the field gets  *)
(* a greater_than_equal or less_than_equal error (ConstraintViolationError)*)
(* carrying the rejected value.  The bounds are the declared ones, and     *)
(* {"overall_score": 1.5} against QualityScore yields that error on        *)
(* overall_score.                                                          *)
(***************************************************************************)
\* <<class, field, has_ge, ge, has_le, le>>, float bounds in tenths
ClaimedBounds ==
    { <<"ApiError", "status_code", TRUE, 400, TRUE, 599>>,
      <<"CognitiveConstraints", "max_tokens", TRUE, 100, TRUE, 32000>>,
      <<"CognitiveConstraints", "timeout_ms", TRUE, 1000, FALSE, 0>>,
      <<"CognitiveRequest", "recursion_depth", TRUE, 0, TRUE, 5>>,
      <<"PaginatedResponse", "total", TRUE, 0, FALSE, 0>>,
      <<"PaginatedResponse", "page", TRUE, 1, FALSE, 0>>,
      <<"PaginatedResponse", "page_size", TRUE, 1, FALSE, 0>>,
      <<"Metadata", "duration_ms", TRUE, 0, FALSE, 0>>,
      <<"QualityScore", "overall_score", TRUE, 0, TRUE, 10>>,
      <<"CognitiveResponse", "confidence", TRUE, 0, TRUE, 10>> }

\* the number a value stands for under a numeric field, in the field's unit
IsNumberFor(T, v) ==
    \/ v.kind = "int"
    \/ v.kind = "float" /\ (T.t = "int" => v.tenths % 10 = 0)

NumberFor(T, v) ==
    IF T.t = "int" THEN (IF v.kind = "int" THEN v.n ELSE v.tenths \div 10)
    ELSE (IF v.kind = "int" THEN 10 * v.n ELSE v.tenths)

InRange(T, x) == (T.has_ge => T.ge <= x) /\ (T.has_le => x <= T.le)

C7_FieldBounded(f) ==
    LET T == Base(f.type)
        v == Get(raw.items, f.name)
    IN  IF InRange(T, NumberFor(T, v))
        THEN ErrorsUnder(result.errs, f.name) = {}
        ELSE /\ phase = "rejected"
             /\ \E e \in ErrorsAt(result.errs, <<f.name>>) :
                   /\ ErrorKind(result.errs[e].type) = "ConstraintViolationError"
                   /\ result.errs[e].type \in {"greater_than_equal", "less_than_equal"}
                   /\ result.errs[e].input = v

C7_InclusiveBounds ==
    /\ \A b \in ClaimedBounds :
          LET T == Base(FieldType(b[1], b[2]))
          IN  /\ T.t \in {"int", "float"}
              /\ T.has_ge = b[3] /\ (b[3] => T.ge = b[4])
              /\ T.has_le = b[5] /\ (b[5] => T.le = b[6])
    /\ (Checked /\ IsObject) =>
          \A i \in FieldIdx :
              LET f == Fields(cls)[i]
                  T == Base(f.type)
              IN  (T.t \in {"int", "float"} /\ (T.has_ge \/ T.has_le)
                     /\ HasKey(raw.items, f.name)
                     /\ IsNumberFor(T, Get(raw.items, f.name))) => C7_FieldBounded(f)
    /\ (Checked /\ cls = "QualityScore" /\ raw = Scenario2) =>
          result.errs = << [type |-> "less_than_equal", loc |-> <<"overall_score">>,
                            input |-> FltV(15)] >>

C7_Witness ==
    /\ cls = "QualityScore" /\ raw = Scenario2 /\ phase = "rejected"
    /\ result.errs[1].type = "less_than_equal"

\* the bounds themselves are accepted
C7_WitnessBoundary ==
    /\ cls = "ApiError" /\ Accepted
    /\ FieldVal(result.val, "status_code") = IntV(599)

(***************************************************************************)
(* C8 (as claimed): {"status": "healthy", "uptime_seconds": 120.5} against *)
(* HealthPulse yields exactly one error, "missing" for service.            *)
(***************************************************************************)
C8_ExactlyOneMissingService ==
    (Checked /\ cls = "HealthPulse" /\ raw = Scenario1) =>
        result.errs = << [type |-> "missing", loc |-> <<"service">>, input |-> raw] >>

(***************************************************************************)
(* C8 (amended): HealthPulse also requires timestamp, so the same payload  *)
(* yields exactly two errors, "missing" for service and "missing" for      *)
(* timestamp, and no error for any other field.                            *)
(***************************************************************************)
C8_MissingServiceAndTimestamp ==
    (Checked /\ cls = "HealthPulse" /\ raw = Scenario1) =>
        /\ phase = "rejected"
        /\ result.errs = << [type |-> "missing", loc |-> <<"service">>, input |-> raw],
                            [type |-> "missing", loc |-> <<"timestamp">>, input |-> raw] >>

C8_Witness ==
    /\ cls = "HealthPulse" /\ raw = Scenario1 /\ phase = "rejected"
    /\ Len(result.errs) = 2

(***************************************************************************)
(* C9: {"code": "NOT_FOUND", "message": "x", "status_code": 404} validates *)
(* against ApiError in whatever order its keys come, and the dump is code, *)
(* message, status_code, details = null, correlation_id = null; every dump *)
(* lists every declared field, null ones too, in declared order.           *)
(***************************************************************************)
IsScenario3 ==
    /\ cls = "ApiError"
    /\ Keys(raw.items) = {"code", "message", "status_code"}
    /\ Get(raw.items, "code") = Word("NOT_FOUND")
    /\ Get(raw.items, "message") = Word("x")
    /\ Get(raw.items, "status_code") = IntV(404)

Dumped == phase \in {"serialized", "revalidated"}

C9_DeclaredOrder ==
    /\ (Checked /\ IsScenario3) => Accepted
    /\ (Dumped /\ IsScenario3) =>
          wire = Map(<< <<"code", Word("NOT_FOUND")>>, <<"message", Word("x")>>,
                        <<"status_code", IntV(404)>>, <<"details", NullV>>,
                        <<"correlation_id", NullV>> >>)
    /\ (Dumped /\ IsObject) =>
          /\ wire.kind = "map"
          /\ [i \in 1..Len(wire.items) |-> wire.items[i][1]]
                = [i \in FieldIdx |-> Fields(cls)[i].name]

C9_Witness ==
    /\ IsScenario3 /\ Dumped
    /\ raw.items[1][1] = "status_code"
    /\ wire.items[1][1] = "code"
    /\ Get(wire.items, "details") = NullV

(***************************************************************************)
(* C11: an optional field whose key is absent carries its declared default *)
(* in the validated instance: reasoning_mode = "quick", source_service =   *)
(* "backend", recursion_depth = 0 (CognitiveRequest), fold_context = true  *)
(* (CognitiveConstraints), source = "rlm-engine" (IntelligenceEvent), null *)
(* for every other optional field.  Nothing else changes: the instance is  *)
(* the one the payload with the defaults written out validates to.  A key  *)
(* present with null stays null.                                           *)
(***************************************************************************)
ClaimedDefault(c, name) ==
    CASE c = "CognitiveRequest" /\ name = "reasoning_mode" -> Word("quick")
      [] c = "CognitiveRequest" /\ name = "source_service" -> Word("backend")
      [] c = "CognitiveRequest" /\ name = "recursion_depth" -> IntV(0)
      [] c = "CognitiveConstraints" /\ name = "fold_context" -> BoolV(TRUE)
      [] c = "IntelligenceEvent" /\ name = "source" -> Word("rlm-engine")
      [] OTHER -> NullV

\* the payload with the claimed default written under every absent optional key
RECURSIVE WithDefaults(_, _, _)
WithDefaults(c, items, i) ==
    IF i > Len(Fields(c)) THEN items
    ELSE LET f == Fields(c)[i]
         IN  WithDefaults(c,
                          IF ~f.required /\ ~HasKey(items, f.name)
                          THEN SetItem(items, f.name, ClaimedDefault(c, f.name))
                          ELSE items,
                          i + 1)

C11_DefaultSubstitution ==
    (Accepted /\ IsObject) =>
        /\ \A i \in FieldIdx :
              LET f == Fields(cls)[i]
              IN  /\ (~f.required /\ ~HasKey(raw.items, f.name)) =>
                        FieldVal(result.val, f.name) = ClaimedDefault(cls, f.name)
                  /\ (HasKey(raw.items, f.name) /\ Get(raw.items, f.name) = NullV) =>
                        FieldVal(result.val, f.name) = NullV
        /\ Validate(cls, Map(WithDefaults(cls, raw.items, 1))) = result

C11_Witness ==
    /\ cls = "CognitiveRequest" /\ Accepted
    /\ Keys(raw.items) = {"task"}
    /\ FieldVal(result.val, "reasoning_mode") = Word("quick")
    /\ FieldVal(result.val, "source_service") = Word("backend")
    /\ FieldVal(result.val, "recursion_depth") = IntV(0)
    /\ FieldVal(result.val, "constraints") = NullV

\* a key present with null keeps null although the default is not null
C11_WitnessNull ==
    /\ cls = "CognitiveRequest" /\ Accepted
    /\ HasKey(raw.items, "reasoning_mode")
    /\ Get(raw.items, "reasoning_mode") = NullV
    /\ FieldVal(result.val, "reasoning_mode") = NullV

====
